---- MODULE Spec2Model ----
(***************************************************************************)
(* Model of the weather station firmware (src/weather_station.py with      *)
(* src/lib/config.py): one wake cycle of run() after the other, the        *)
(* real-time clock persisting over deep sleep.                             *)
(*                                                                         *)
(* Time is in seconds since 2000-01-01 00:00:00, the epoch of utime on the *)
(* ESP32 port.  The clock is advanced over deep sleep only; the awake part *)
(* of a cycle is taken as instantaneous for the clock.                     *)
(***************************************************************************)
EXTENDS Integers, Sequences, FiniteSets, TLC

----------------------------------------------------------------------------
(* config.py *)

LED_ON == 0
LED_OFF == 1
TIMEZONE == 1
INTERVAL == 900
MAX_TRIES == 20
PAGES == <<"Date Time", "Currently", "Forecast", "Sensors #1", "Sensors #2">>

(* bounds of the model *)
MaxCycles == 2
MaxDaily == 5

----------------------------------------------------------------------------
(* utime: the proleptic Gregorian calendar on the 2000 epoch.              *)
(* A time tuple is <<year, month, mday, hour, minute, second, weekday,     *)
(* yearday>> (1-based here: tm[1] is the year), weekday 0 = Monday.        *)

IsLeap(y) == (y % 4 = 0 /\ y % 100 # 0) \/ y % 400 = 0

DaysInMonth(y, m) ==
    IF m = 2 THEN (IF IsLeap(y) THEN 29 ELSE 28)
    ELSE IF m \in {4, 6, 9, 11} THEN 30 ELSE 31

LeapsUpTo(y) == (y \div 4) - (y \div 100) + (y \div 400)

\* days from 2000-01-01 to y-01-01
DaysBeforeYear(y) == 365 * (y - 2000) + LeapsUpTo(y - 1) - LeapsUpTo(1999)

\* days from y-01-01 to y-m-01
DaysBeforeMonth(y, m) ==
    << 0, 31, 59, 90, 120, 151, 181, 212, 243, 273, 304, 334 >>[m]
        + (IF m > 2 /\ IsLeap(y) THEN 1 ELSE 0)

DaysSinceEpoch(y, m, d) == DaysBeforeYear(y) + DaysBeforeMonth(y, m) + (d - 1)

\* 2000-01-01 was a Saturday (5)
WeekdayOfDays(n) == (n + 5) % 7

\* utime.mktime((year, month, mday, hour, minute, second, _, _))
Mktime(y, m, d, hh, mi, ss) ==
    DaysSinceEpoch(y, m, d) * 86400 + hh * 3600 + mi * 60 + ss

YearOfDays(n) ==
    CHOOSE y \in 2000..2100 : DaysBeforeYear(y) <= n /\ n < DaysBeforeYear(y + 1)

MonthOfYearDay(y, yd) ==
    CHOOSE m \in 1..12 :
        DaysBeforeMonth(y, m) <= yd /\ yd < DaysBeforeMonth(y, m) + DaysInMonth(y, m)

\* the time tuple of day n since the epoch, second r of the day, in year y
TimeTuple(n, r, y) ==
    LET yd == n - DaysBeforeYear(y)
        m  == MonthOfYearDay(y, yd)
    IN  << y, m, yd - DaysBeforeMonth(y, m) + 1,
           r \div 3600, (r % 3600) \div 60, r % 60,
           WeekdayOfDays(n), yd + 1 >>

\* utime.localtime(secs)
Localtime(secs) ==
    CHOOSE tm \in { TimeTuple(secs \div 86400, secs % 86400, y) :
                        y \in { YearOfDays(secs \div 86400) } } : TRUE

\* machine.RTC().datetime((year, month, day, weekday, hour, minute, second, us)):
\* the clock value in seconds that this datetime tuple sets
RtcDatetime(dt) == Mktime(dt[1], dt[2], dt[3], dt[5], dt[6], dt[7])

----------------------------------------------------------------------------
(* the environment's answers *)

\* UTC instants the NTP server may report: one second either side of, and on,
\* the two DST boundaries of 2021 as seen after the +1 h timezone correction
\* (2021-03-28 02:00:00 local = 670212000, 2021-10-31 03:00:00 local =
\* 688964400), a summer instant and a winter instant
NtpTimes ==
    { 670208399, 670208400, 670208401,
      688960799, 688960800, 688960801,
      678458096, 695563200 }

\* HTTP status codes answered by the remote services
StatusCodes == {200, 399, 400, 404}

\* outcome of urequests.get(url): the call raises, or a response with a status
Responses ==
    { [raised |-> TRUE, status_code |-> 0] } \cup
    { [raised |-> FALSE, status_code |-> c] : c \in StatusCodes }

\* the response object of a GET that did not raise: its status, whether its
\* body has the fields the code reads, and the length of its daily series
Received(r, wellFormed, n) ==
    [status_code |-> r.status_code, wellFormed |-> wellFormed, daily |-> n]

\* no response object held
NoResponse == [status_code |-> 0, wellFormed |-> FALSE, daily |-> 0]

\* addresses on the I2C bus: AM2320 (0x5C), BMP180 (0x77), BH1750 (0x23), OLED (0x3C)
BusAddresses == {92, 119, 35, 60}

BusScans == SUBSET BusAddresses

----------------------------------------------------------------------------
VARIABLES
    pc,               \* position of run() in the cycle
    cycle,            \* number of the wake cycle of this power-on session
    debugPin,         \* level of the debug input (0 = low = debugging)
    cfgDST,           \* config.DAYLIGHT_SAVING_TIME
    connected,        \* sta_if.isconnected() as last read
    tries,            \* connect_wifi: local counter of 1-second waits
    connectRequests,  \* sta_if.connect() calls of this cycle
    rtc,              \* the real-time clock, seconds since the epoch
    ntpUtc,           \* UTC instant set by the last ntptime.settime()
    syncCycle,        \* the cycle of that ntptime.settime(), 0 before it
    ntpFetches,       \* ntptime.settime() calls of this session
    rtcWrites,        \* writes of the clock in this session
    syncDone,         \* a synchronize_rtc has run to its end past the sentinel test
    year,             \* synchronize_rtc: local year
    marchDay,         \* synchronize_rtc: day of month of the DST start
    octDay,           \* synchronize_rtc: day of month of the DST end
    HHMarch,          \* synchronize_rtc: local HHMarch
    HHOctober,        \* synchronize_rtc: local HHOctober
    invoked,          \* the steps run() has called in this cycle, in order
    failedAt,         \* the step that raised in this cycle, or "none"
    exc,              \* the exception caught in this cycle, or "none"
    led,              \* level on the error led pin (-1: pin not driven yet)
    ledLog,           \* levels written to the error led in this cycle
    faultRuns,        \* show_error() calls of this cycle
    flashI,           \* show_error: loop variable i
    requests,         \* GET requests of get_weather_data in this cycle, in order
    owdata,           \* get_weather_data: the list owdata
    sensorLog,        \* get_sensor_readings: sensors checked and read, in order
    sensor_data,      \* the list returned by get_sensor_readings
    response,         \* the last response object, dropped when its function returns
    ow_data,          \* run(): the list returned by get_weather_data
    page,             \* update_oled_display: loop variable page
    displayLog,       \* calls on the display in this cycle, in order
    oled,             \* the scan for the display: "unscanned", "found", "absent"
    uploads,          \* GET requests of log_sensor_readings in this cycle
    sleepDecisions,   \* evaluations of the sleep decision in this cycle
    sleepMs           \* argument of machine.deepsleep(), -1 when not called

wifiVars == << connected, tries, connectRequests >>
clockVars == << rtc, ntpUtc, syncCycle, ntpFetches, rtcWrites, syncDone >>
dstVars == << year, marchDay, octDay, HHMarch, HHOctober >>
faultVars == << led, ledLog, faultRuns, flashI >>
dataVars == << requests, owdata, sensorLog, sensor_data, response, ow_data >>
oledVars == << page, displayLog, oled >>
sleepVars == << sleepDecisions, sleepMs >>
envVars == << debugPin, cfgDST, cycle >>

vars == << pc, cycle, debugPin, cfgDST, connected, tries, connectRequests,
           rtc, ntpUtc, syncCycle, ntpFetches, rtcWrites, syncDone,
           year, marchDay, octDay, HHMarch, HHOctober,
           invoked, failedAt, exc, led, ledLog, faultRuns, flashI,
           requests, owdata, sensorLog, sensor_data, response, ow_data,
           page, displayLog, oled,
           uploads, sleepDecisions, sleepMs >>

----------------------------------------------------------------------------
(* run(): the order of the calls and the error boundary *)

\* variant: the sensors are read before the forecast is fetched
StepOrderSwapped ==
    << "connect_wifi", "synchronize_rtc", "get_sensor_readings",
       "get_weather_data", "update_oled_display", "log_sensor_readings" >>

\* the calls in the try block of run(), in source order
StepOrder ==
    << "connect_wifi", "synchronize_rtc", "get_weather_data",
       "get_sensor_readings", "update_oled_display", "log_sensor_readings" >>

StepIndex(step) == CHOOSE k \in 1..Len(StepOrder) : StepOrder[k] = step

\* where control goes when the call `step` returns normally
AfterReturn(step) ==
    IF StepIndex(step) < Len(StepOrder)
    THEN StepOrder[StepIndex(step) + 1]
    ELSE "sleep_decision"

\* variant: the exception is not caught and ends the program with a traceback
AfterRaiseUncaught(step) == "traceback"

\* variant: the exception is swallowed and run() carries on with the next call
AfterRaiseContinue(step) == AfterReturn(step)

\* where control goes when the call `step` raises: the except clause of run()
AfterRaise(step) == "except"

Enter(step) ==
    /\ pc' = step
    /\ invoked' = IF step \in { StepOrder[k] : k \in 1..Len(StepOrder) }
                  THEN Append(invoked, step) ELSE invoked

Return(step) == Enter(AfterReturn(step)) /\ UNCHANGED << failedAt, exc >>

Raise(step) ==
    /\ Enter(AfterRaise(step))
    /\ failedAt' = step

\* the call `step` raises the exception `message`
Throw(step, message) == Raise(step) /\ exc' = message

Goto(label) == pc' = label /\ UNCHANGED << invoked, failedAt, exc >>

----------------------------------------------------------------------------
(* the state after power-on, and what a wake from deep sleep resets *)

Init ==
    /\ pc = "run"
    /\ cycle = 1
    /\ debugPin \in {0, 1}
    /\ cfgDST \in BOOLEAN
    /\ connected \in BOOLEAN
    /\ tries = 0
    /\ connectRequests = 0
    /\ rtc = 0
    /\ ntpUtc = 0
    /\ syncCycle = 0
    /\ ntpFetches = 0
    /\ rtcWrites = 0
    /\ syncDone = FALSE
    /\ year = 0
    /\ marchDay = 0
    /\ octDay = 0
    /\ HHMarch = 0
    /\ HHOctober = 0
    /\ invoked = << >>
    /\ failedAt = "none"
    /\ exc = "none"
    /\ led = -1
    /\ ledLog = << >>
    /\ faultRuns = 0
    /\ flashI = 0
    /\ requests = << >>
    /\ owdata = << >>
    /\ sensorLog = << >>
    /\ sensor_data = << >>
    /\ response = NoResponse
    /\ ow_data = << >>
    /\ page = 0
    /\ displayLog = << >>
    /\ oled = "unscanned"
    /\ uploads = 0
    /\ sleepDecisions = 0
    /\ sleepMs = -1

\* the module is executed from its first line again: run() at line 651
Run ==
    /\ pc = "run"
    /\ Enter(StepOrder[1])
    /\ UNCHANGED << envVars, wifiVars, clockVars, dstVars, failedAt, exc,
                    faultVars, dataVars, oledVars, uploads, sleepVars >>

----------------------------------------------------------------------------
(* connect_wifi() *)

\* sta_if.isconnected(): a station that is connected stays connected for the
\* rest of the call; one that is not may have got its connection since the
\* last read, once the connection has been requested
IsConnectedReads ==
    IF connected THEN {TRUE}
    ELSE IF connectRequests > 0 THEN BOOLEAN ELSE {FALSE}

\* variant: one wait too many
KeepTryingOffByOne(isconnected, n) == ~isconnected /\ n <= MAX_TRIES

\* the loop condition at line 111
KeepTrying(isconnected, n) == ~isconnected /\ n < MAX_TRIES

\* lines 91-107: the first test of the connection and the connection request
ConnectWifi ==
    /\ pc = "connect_wifi"
    /\ IF ~connected
       THEN /\ connectRequests' = connectRequests + 1
            /\ tries' = 0
            /\ Goto("wifi_loop")
       ELSE /\ UNCHANGED << connectRequests, tries >>
            /\ Goto("wifi_status")
    /\ UNCHANGED << envVars, connected, clockVars, dstVars, faultVars,
                    dataVars, oledVars, uploads, sleepVars >>

\* lines 111-120: one test of the loop condition, and the wait when it holds
WifiLoop ==
    /\ pc = "wifi_loop"
    /\ \E c \in IsConnectedReads :
        /\ connected' = c
        /\ IF KeepTrying(c, tries)
           THEN tries' = tries + 1 /\ Goto("wifi_loop")
           ELSE UNCHANGED tries /\ Goto("wifi_status")
    /\ UNCHANGED << envVars, connectRequests, clockVars, dstVars, faultVars,
                    dataVars, oledVars, uploads, sleepVars >>

\* lines 123-130: the outcome; the local counter ends with the call
WifiStatus ==
    /\ pc = "wifi_status"
    /\ \E c \in IsConnectedReads :
        /\ connected' = c
        /\ IF c THEN Return("connect_wifi")
               ELSE Throw("connect_wifi", "WiFi connection failed")
    /\ tries' = 0
    /\ UNCHANGED << envVars, connectRequests, clockVars, dstVars, faultVars,
                    dataVars, oledVars, uploads, sleepVars >>

----------------------------------------------------------------------------
(* synchronize_rtc() *)

\* variant: the clock is synchronized in every cycle
NotSynchronizedAlways(tm) == TRUE

\* variant: any year up to 2021 counts as not synchronized
NotSynchronizedUpTo2021(tm) == tm[1] <= 2021

\* line 155: the clock was never synchronized when its year is the default year
NotSynchronized(tm) == tm[1] = 2000

\* the tuple handed to rtc.datetime() at lines 174 and 202, from a time tuple
DatetimeOf(tm) == << tm[1], tm[2], tm[3], tm[7], tm[4], tm[5], tm[6], 0 >>

\* variant: the constant of the October formula in the March formula
LastSundayMarchK1(y) == 31 - (((5 * y) \div 4 + 1) % 7)

\* lines 187 and 190: the day of the month of the last Sunday
LastSundayMarch(y) == 31 - (((5 * y) \div 4 + 4) % 7)

LastSundayOctober(y) == 31 - (((5 * y) \div 4 + 1) % 7)

\* variant: the start of the window excluded
InDaylightSavingExclusive(curtime, start, end) == curtime > start /\ curtime < end

\* line 196
InDaylightSaving(curtime, start, end) == curtime >= start /\ curtime < end

\* lines 147-155: the sentinel test
SynchronizeRtc ==
    /\ pc = "synchronize_rtc"
    /\ IF NotSynchronized(Localtime(rtc))
       THEN Goto("ntp_settime")
       ELSE Return("synchronize_rtc")
    /\ UNCHANGED << envVars, wifiVars, clockVars, dstVars, faultVars,
                    dataVars, oledVars, uploads, sleepVars >>

\* line 164: ntptime.settime() sets the clock to UTC, or raises
NtpSettime ==
    /\ pc = "ntp_settime"
    /\ ntpFetches' = ntpFetches + 1
    /\ \/ \E utc \in NtpTimes :
            /\ rtc' = utc
            /\ ntpUtc' = utc
            /\ syncCycle' = cycle
            /\ rtcWrites' = rtcWrites + 1
            /\ Goto("tz_correction")
       \/ /\ UNCHANGED << rtc, ntpUtc, syncCycle, rtcWrites >>
          /\ Throw("synchronize_rtc", "OSError")
    /\ UNCHANGED << envVars, wifiVars, syncDone, dstVars, faultVars,
                    dataVars, oledVars, uploads, sleepVars >>

\* lines 172-181: the time zone correction, and the test of the DST setting
TzCorrection ==
    /\ pc = "tz_correction"
    /\ rtc' = RtcDatetime(DatetimeOf(Localtime(rtc + TIMEZONE * 3600)))
    /\ rtcWrites' = rtcWrites + 1
    /\ IF cfgDST
       THEN Goto("dst_window") /\ UNCHANGED syncDone
       ELSE Return("synchronize_rtc") /\ syncDone' = TRUE
    /\ UNCHANGED << envVars, wifiVars, ntpUtc, syncCycle, ntpFetches, dstVars,
                    faultVars,
                    dataVars, oledVars, uploads, sleepVars >>

\* lines 184-190: the DST window of the current year
DstWindow ==
    /\ pc = "dst_window"
    /\ \E y \in { Localtime(rtc)[1] } :
        /\ year' = y
        /\ marchDay' = LastSundayMarch(y)
        /\ octDay' = LastSundayOctober(y)
        /\ HHMarch' = Mktime(y, 3, LastSundayMarch(y), 2, 0, 0)
        /\ HHOctober' = Mktime(y, 10, LastSundayOctober(y), 3, 0, 0)
    /\ Goto("dst_correction")
    /\ UNCHANGED << envVars, wifiVars, clockVars, faultVars,
                    dataVars, oledVars, uploads, sleepVars >>

\* lines 193-202: the extra hour inside the window
DstCorrection ==
    /\ pc = "dst_correction"
    /\ LET curtime == rtc IN
        IF InDaylightSaving(curtime, HHMarch, HHOctober)
        THEN /\ rtc' = RtcDatetime(DatetimeOf(Localtime(curtime + 3600)))
             /\ rtcWrites' = rtcWrites + 1
        ELSE UNCHANGED << rtc, rtcWrites >>
    /\ syncDone' = TRUE
    /\ Return("synchronize_rtc")
    /\ UNCHANGED << envVars, wifiVars, ntpUtc, syncCycle, ntpFetches, dstVars,
                    faultVars,
                    dataVars, oledVars, uploads, sleepVars >>

----------------------------------------------------------------------------
(* get_weather_data() *)

\* variant: any status up to 400 counts as success
SuccessUpTo400(status_code) == status_code <= 400

\* variant: only server errors count as failure
SuccessBelow500(status_code) == status_code < 500

\* lines 233, 273 and 592: the test of the response status
Success(status_code) == status_code < 400

\* variant: the loop takes today and the next two days, range(0, 3)
DailyEntriesFromToday(n) ==
    [ k \in 1..(IF n < 3 THEN n ELSE 3) |-> [from |-> "URL2", index |-> k - 1] ]

\* the entries daily[1], daily[2], daily[3] the loop at line 290 gets to append
\* from a daily series of n entries (indices 0..n-1)
DailyEntries(n) ==
    [ day \in 1..(IF n - 1 < 3 THEN (IF n - 1 < 0 THEN 0 ELSE n - 1) ELSE 3)
        |-> [from |-> "URL2", index |-> day] ]

\* lines 224-230: the GET of the current conditions
OwUrl1 ==
    /\ pc = "get_weather_data"
    /\ requests' = Append(requests, "URL1")
    /\ \E r \in Responses, wellFormed \in BOOLEAN :
        IF r.raised
        THEN UNCHANGED response /\ Throw("get_weather_data", "OSError")
        ELSE response' = Received(r, wellFormed, 0) /\ Goto("ow_today")
    /\ UNCHANGED << envVars, wifiVars, clockVars, dstVars, faultVars, owdata,
                    ow_data, sensorLog, sensor_data, oledVars, uploads, sleepVars >>

\* lines 232-261: the status test and the entry for today
OwToday ==
    /\ pc = "ow_today"
    /\ IF ~Success(response.status_code)
       THEN /\ UNCHANGED owdata
            /\ response' = NoResponse
            /\ Throw("get_weather_data", "Webhook OpenWeather URL1 failed")
       ELSE IF ~response.wellFormed
       THEN /\ UNCHANGED owdata
            /\ response' = NoResponse
            /\ Throw("get_weather_data", "KeyError")
       ELSE /\ owdata' = << [from |-> "URL1", index |-> 0] >>
            /\ UNCHANGED response
            /\ Goto("ow_url2")
    /\ UNCHANGED << envVars, wifiVars, clockVars, dstVars, faultVars, requests,
                    ow_data, sensorLog, sensor_data, oledVars, uploads, sleepVars >>

\* lines 264-270: the GET of the daily forecast, a series of n entries
OwUrl2 ==
    /\ pc = "ow_url2"
    /\ requests' = Append(requests, "URL2")
    /\ \E r \in Responses, wellFormed \in BOOLEAN, n \in 0..MaxDaily :
        IF r.raised
        THEN response' = NoResponse /\ Throw("get_weather_data", "OSError")
        ELSE response' = Received(r, wellFormed, n) /\ Goto("ow_daily")
    /\ UNCHANGED << envVars, wifiVars, clockVars, dstVars, faultVars, owdata,
                    ow_data, sensorLog, sensor_data, oledVars, uploads, sleepVars >>

\* lines 272-307: the status test, the loop over the days and the return;
\* daily[day] of a series without index day raises
OwDaily ==
    /\ pc = "ow_daily"
    /\ IF ~Success(response.status_code)
       THEN /\ UNCHANGED << owdata, ow_data >>
            /\ Throw("get_weather_data", "Webhook OpenWeather URL1 failed")
       ELSE IF ~response.wellFormed
       THEN /\ UNCHANGED << owdata, ow_data >>
            /\ Throw("get_weather_data", "KeyError")
       ELSE /\ owdata' = owdata \o DailyEntries(response.daily)
            /\ IF response.daily >= 4
               THEN /\ ow_data' = owdata \o DailyEntries(response.daily)
                    /\ Return("get_weather_data")
               ELSE /\ UNCHANGED ow_data
                    /\ Throw("get_weather_data", "IndexError")
    /\ response' = NoResponse
    /\ UNCHANGED << envVars, wifiVars, clockVars, dstVars, faultVars, requests,
                    sensorLog, sensor_data, oledVars, uploads, sleepVars >>

----------------------------------------------------------------------------
(* get_sensor_readings() *)

Scanned(address, scan) == [op |-> "scan", address |-> address, found |-> address \in scan]

Measured(address) == [op |-> "read", address |-> address, found |-> TRUE]

\* a transaction with the sensor that raised
Failed(address) == [op |-> "error", address |-> address, found |-> TRUE]

\* variant: the result of the first scan is tested
TestedScanFirst(wake, scan) == wake

\* lines 340-341: of the two scans the second is the one tested
TestedScan(wake, scan) == scan

\* variant: the result of the scan is not looked at
PresentAlways(address, scan) == TRUE

\* lines 341, 357, 372 and 435: the address is in the result of the scan
Present(address, scan) == address \in scan

\* lines 337-351: AM2320, a first scan to wake the sensor up and the scan tested
Am2320 ==
    /\ pc = "get_sensor_readings"
    /\ \E wake \in BusScans, scan \in BusScans, transferred \in BOOLEAN :
        LET log == sensorLog \o << Scanned(92, wake), Scanned(92, scan) >> IN
        IF ~Present(92, TestedScan(wake, scan))
        THEN /\ sensorLog' = log
             /\ Throw("get_sensor_readings", "Cannot find AM2320 sensor")
        ELSE IF ~transferred
        THEN /\ sensorLog' = Append(log, Failed(92))
             /\ Throw("get_sensor_readings", "OSError")
        ELSE sensorLog' = Append(log, Measured(92)) /\ Goto("bmp180")
    /\ UNCHANGED << envVars, wifiVars, clockVars, dstVars, faultVars, requests,
                    owdata, response, ow_data, sensor_data, oledVars, uploads,
                    sleepVars >>

\* lines 354-366: BMP180
Bmp180 ==
    /\ pc = "bmp180"
    /\ \E scan \in BusScans, transferred \in BOOLEAN :
        LET log == Append(sensorLog, Scanned(119, scan)) IN
        IF ~Present(119, scan)
        THEN /\ sensorLog' = log
             /\ Throw("get_sensor_readings", "Cannot find BMP180 sensor")
        ELSE IF ~transferred
        THEN /\ sensorLog' = Append(log, Failed(119))
             /\ Throw("get_sensor_readings", "OSError")
        ELSE sensorLog' = Append(log, Measured(119)) /\ Goto("bh1750")
    /\ UNCHANGED << envVars, wifiVars, clockVars, dstVars, faultVars, requests,
                    owdata, response, ow_data, sensor_data, oledVars, uploads,
                    sleepVars >>

\* lines 369-381: BH1750 and the record returned
Bh1750 ==
    /\ pc = "bh1750"
    /\ \E scan \in BusScans, transferred \in BOOLEAN :
        LET log == Append(sensorLog, Scanned(35, scan)) IN
        IF ~Present(35, scan)
        THEN /\ sensorLog' = log
             /\ UNCHANGED sensor_data
             /\ Throw("get_sensor_readings", "Cannot find BH1750 sensor")
        ELSE IF ~transferred
        THEN /\ sensorLog' = Append(log, Failed(35))
             /\ UNCHANGED sensor_data
             /\ Throw("get_sensor_readings", "OSError")
        ELSE /\ sensorLog' = Append(log, Measured(35))
             /\ sensor_data' =
                    << { "am2320_temp", "am2320_hum", "bmp180_temp",
                         "bmp180_pres", "bmp180_alt", "bh1750_lum" } >>
             /\ Return("get_sensor_readings")
    /\ UNCHANGED << envVars, wifiVars, clockVars, dstVars, faultVars, requests,
                    owdata, response, ow_data, oledVars, uploads, sleepVars >>

----------------------------------------------------------------------------
(* update_oled_display() *)

\* the pages that load bitmaps: all but the date and time page (page 0)
LoadsImages(p) == p >= 1

\* variant: the loop leaves the last page out
MorePagesButLast(p) == p < Len(PAGES) - 1

\* line 448: the loop goes on while page is in range(len(config.PAGES))
MorePages(p) == p < Len(PAGES)

\* lines 451-454: the frame buffer cleared and the title drawn
PageHead(p) == << <<"fill", p>>, <<"text", p>> >>

\* variant: the dwell before the page is shown
PageTailDwellFirst(p) == << <<"body", p>>, <<"sleep", p>>, <<"show", p>> >>

\* lines 457-563: the content drawn, the page shown and the dwell of 5 seconds
PageTail(p) == << <<"body", p>>, <<"show", p>>, <<"sleep", p>> >>

\* lines 431-445: the scan for the display
OledScan ==
    /\ pc = "update_oled_display"
    /\ \E scan \in BusScans :
        /\ oled' = (IF 60 \in scan THEN "found" ELSE "absent")
        /\ IF ~Present(60, scan)
           THEN /\ UNCHANGED page
                /\ Throw("update_oled_display", "Cannot find OLED display")
           ELSE page' = 0 /\ Goto("page_loop")
    /\ UNCHANGED << envVars, wifiVars, clockVars, dstVars, faultVars,
                    dataVars, displayLog, uploads, sleepVars >>

\* lines 448-563: one page; a bitmap that cannot be loaded raises before the
\* page is shown
RenderPage ==
    /\ pc = "page_loop"
    /\ MorePages(page)
    /\ \E loaded \in BOOLEAN :
        LET head == displayLog \o PageHead(page) IN
        IF LoadsImages(page) /\ ~loaded
        THEN /\ displayLog' = head
             /\ UNCHANGED page
             /\ Throw("update_oled_display", "OSError")
        ELSE /\ displayLog' = head \o PageTail(page)
             /\ page' = page + 1
             /\ Goto("page_loop")
    /\ UNCHANGED << envVars, wifiVars, clockVars, dstVars, faultVars,
                    dataVars, oled, uploads, sleepVars >>

\* line 566
PowerOff ==
    /\ pc = "page_loop"
    /\ ~MorePages(page)
    /\ displayLog' = Append(displayLog, <<"poweroff", page>>)
    /\ Return("update_oled_display")
    /\ UNCHANGED << envVars, wifiVars, clockVars, dstVars, faultVars,
                    dataVars, page, oled, uploads, sleepVars >>

----------------------------------------------------------------------------
(* log_sensor_readings() *)

\* lines 573-589: the GET of the logging webhook
LogSensorReadings ==
    /\ pc = "log_sensor_readings"
    /\ uploads' = uploads + 1
    /\ \E r \in Responses :
        IF r.raised
        THEN UNCHANGED response /\ Throw("log_sensor_readings", "OSError")
        ELSE response' = Received(r, TRUE, 0) /\ Goto("thingspeak_status")
    /\ UNCHANGED << envVars, wifiVars, clockVars, dstVars, faultVars, requests,
                    owdata, ow_data, sensorLog, sensor_data, oledVars, sleepVars >>

\* lines 591-597: the status test
ThingspeakStatus ==
    /\ pc = "thingspeak_status"
    /\ IF Success(response.status_code)
       THEN Return("log_sensor_readings")
       ELSE Throw("log_sensor_readings", "Webhook ThingSpeak failed")
    /\ response' = NoResponse
    /\ UNCHANGED << envVars, wifiVars, clockVars, dstVars, faultVars, requests,
                    owdata, ow_data, sensorLog, sensor_data, oledVars, uploads,
                    sleepVars >>

----------------------------------------------------------------------------
(* the except clause of run() and show_error() *)

\* line 58: range(3)
Flashes == 3

\* variant: one flash too many
FlashAgainOffByOne(i) == i <= Flashes

\* line 58: the loop goes on while i is in range(3); i counts the flashes made
FlashAgain(i) == i < Flashes

\* lines 642-655
Except ==
    /\ pc = "except"
    /\ faultRuns' = faultRuns + 1
    /\ flashI' = 0
    /\ Goto("led_on")
    /\ UNCHANGED << envVars, wifiVars, clockVars, dstVars, led, ledLog,
                    dataVars, oledVars, uploads, sleepVars >>

\* lines 59-60
LedOn ==
    /\ pc = "led_on"
    /\ led' = LED_ON
    /\ ledLog' = Append(ledLog, LED_ON)
    /\ Goto("led_off")
    /\ UNCHANGED << envVars, wifiVars, clockVars, dstVars, faultRuns, flashI,
                    dataVars, oledVars, uploads, sleepVars >>

\* lines 61-62, and the end of the loop
LedOff ==
    /\ pc = "led_off"
    /\ led' = LED_OFF
    /\ ledLog' = Append(ledLog, LED_OFF)
    /\ flashI' = flashI + 1
    /\ IF FlashAgain(flashI + 1) THEN Goto("led_on") ELSE Goto("sleep_decision")
    /\ UNCHANGED << envVars, wifiVars, clockVars, dstVars, faultRuns,
                    dataVars, oledVars, uploads, sleepVars >>

----------------------------------------------------------------------------
(* the sleep decision and deep sleep *)

\* debug_on(), lines 69-80: debugging is on when the debug pin is low
DebugOn(level) == level = 0

\* line 647
GoesToSleep(level) == ~DebugOn(level)

\* variant: the interval handed over in seconds
DeepsleepArgumentSeconds == INTERVAL

\* line 612: the argument of machine.deepsleep(), in milliseconds
DeepsleepArgument == INTERVAL * 1000

\* lines 647-648; without deep sleep run() returns and the board stays powered
SleepDecision ==
    /\ pc = "sleep_decision"
    /\ sleepDecisions' = sleepDecisions + 1
    /\ IF GoesToSleep(debugPin)
       THEN Goto("deepsleep_till_next_cycle")
       ELSE Goto("debughold")
    /\ UNCHANGED << envVars, wifiVars, clockVars, dstVars, faultVars,
                    dataVars, oledVars, uploads, sleepMs >>

\* lines 604-612
DeepsleepTillNextCycle ==
    /\ pc = "deepsleep_till_next_cycle"
    /\ sleepMs' = DeepsleepArgument
    /\ Goto("deepsleep")
    /\ UNCHANGED << envVars, wifiVars, clockVars, dstVars, faultVars,
                    dataVars, oledVars, uploads, sleepDecisions >>

\* variant: the failure status and the data of the cycle survive the sleep
WakeRetaining ==
    /\ pc = "deepsleep"
    /\ cycle < MaxCycles
    /\ cycle' = cycle + 1
    /\ rtc' = rtc + sleepMs \div 1000
    /\ pc' = "run"
    /\ connected' \in BOOLEAN
    /\ tries' = 0
    /\ connectRequests' = 0
    /\ year' = 0
    /\ marchDay' = 0
    /\ octDay' = 0
    /\ HHMarch' = 0
    /\ HHOctober' = 0
    /\ invoked' = << >>
    /\ led' = -1
    /\ ledLog' = << >>
    /\ faultRuns' = 0
    /\ flashI' = 0
    /\ requests' = << >>
    /\ owdata' = << >>
    /\ sensorLog' = << >>
    /\ response' = NoResponse
    /\ page' = 0
    /\ displayLog' = << >>
    /\ oled' = "unscanned"
    /\ uploads' = 0
    /\ sleepDecisions' = 0
    /\ sleepMs' = -1
    /\ UNCHANGED << debugPin, cfgDST, ntpUtc, syncCycle, ntpFetches, rtcWrites,
                    syncDone,
                    failedAt, exc, sensor_data, ow_data >>

\* the wake from deep sleep: the clock has run on, everything else starts anew
Wake ==
    /\ pc = "deepsleep"
    /\ cycle < MaxCycles
    /\ cycle' = cycle + 1
    /\ rtc' = rtc + sleepMs \div 1000
    /\ pc' = "run"
    /\ connected' \in BOOLEAN
    /\ tries' = 0
    /\ connectRequests' = 0
    /\ year' = 0
    /\ marchDay' = 0
    /\ octDay' = 0
    /\ HHMarch' = 0
    /\ HHOctober' = 0
    /\ invoked' = << >>
    /\ failedAt' = "none"
    /\ exc' = "none"
    /\ led' = -1
    /\ ledLog' = << >>
    /\ faultRuns' = 0
    /\ flashI' = 0
    /\ requests' = << >>
    /\ owdata' = << >>
    /\ sensorLog' = << >>
    /\ sensor_data' = << >>
    /\ response' = NoResponse
    /\ ow_data' = << >>
    /\ page' = 0
    /\ displayLog' = << >>
    /\ oled' = "unscanned"
    /\ uploads' = 0
    /\ sleepDecisions' = 0
    /\ sleepMs' = -1
    /\ UNCHANGED << debugPin, cfgDST, ntpUtc, syncCycle, ntpFetches, rtcWrites,
                    syncDone >>

\* the debug jumper is put on or taken off at any time
DebugPinChange ==
    /\ debugPin' = 1 - debugPin
    /\ UNCHANGED << pc, cycle, cfgDST, wifiVars, clockVars, dstVars, invoked,
                    failedAt, exc, faultVars, dataVars, oledVars, uploads, sleepVars >>

----------------------------------------------------------------------------
ProgramStep ==
    \/ Run
    \/ ConnectWifi
    \/ WifiLoop
    \/ WifiStatus
    \/ SynchronizeRtc
    \/ NtpSettime
    \/ TzCorrection
    \/ DstWindow
    \/ DstCorrection
    \/ OwUrl1
    \/ OwToday
    \/ OwUrl2
    \/ OwDaily
    \/ Am2320
    \/ Bmp180
    \/ Bh1750
    \/ OledScan
    \/ RenderPage
    \/ PowerOff
    \/ LogSensorReadings
    \/ ThingspeakStatus
    \/ Except
    \/ LedOn
    \/ LedOff
    \/ SleepDecision
    \/ DeepsleepTillNextCycle
    \/ Wake

Next == ProgramStep \/ DebugPinChange

Spec == Init /\ [][Next]_vars

\* the program is the only thread of the board: it always takes its next step
FairSpec == Spec /\ WF_vars(ProgramStep)

----------------------------------------------------------------------------
(* a station that has not set its clock for a year *)

\* the clock starts at 2000-01-01 00:00:00 and runs on through deep sleep; a
\* cycle that does not come to set it (no network, or the time fetch fails)
\* leaves it INTERVAL later. After UnsetCycles such cycles it reads
\* 2000-12-31 23:45:00 (2000 has 366 days: 366 * 86400 = 35136 * 900).
UnsetCycles == 35135

\* the wake after UnsetCycles cycles none of which set the clock; cycle counts
\* from this wake
InitLate ==
    /\ pc = "run"
    /\ cycle = 1
    /\ debugPin \in {0, 1}
    /\ cfgDST \in BOOLEAN
    /\ connected \in BOOLEAN
    /\ tries = 0
    /\ connectRequests = 0
    /\ rtc = UnsetCycles * INTERVAL
    /\ ntpUtc = 0
    /\ syncCycle = 0
    /\ ntpFetches = 0
    /\ rtcWrites = 0
    /\ syncDone = FALSE
    /\ year = 0
    /\ marchDay = 0
    /\ octDay = 0
    /\ HHMarch = 0
    /\ HHOctober = 0
    /\ invoked = << >>
    /\ failedAt = "none"
    /\ exc = "none"
    /\ led = -1
    /\ ledLog = << >>
    /\ faultRuns = 0
    /\ flashI = 0
    /\ requests = << >>
    /\ owdata = << >>
    /\ sensorLog = << >>
    /\ sensor_data = << >>
    /\ response = NoResponse
    /\ ow_data = << >>
    /\ page = 0
    /\ displayLog = << >>
    /\ oled = "unscanned"
    /\ uploads = 0
    /\ sleepDecisions = 0
    /\ sleepMs = -1

SpecLate == InitLate /\ [][Next]_vars

----------------------------------------------------------------------------
(* the DST days as a function of the year alone, lines 184-190 *)

Years == 2000..2099

InitCal ==
    /\ pc = "dst_days"
    /\ year \in Years
    /\ cycle = 1
    /\ debugPin = 1
    /\ cfgDST = TRUE
    /\ connected = TRUE
    /\ tries = 0
    /\ connectRequests = 0
    /\ rtc = 0
    /\ ntpUtc = 0
    /\ syncCycle = 0
    /\ ntpFetches = 0
    /\ rtcWrites = 0
    /\ syncDone = FALSE
    /\ marchDay = 0
    /\ octDay = 0
    /\ HHMarch = 0
    /\ HHOctober = 0
    /\ invoked = << "connect_wifi", "synchronize_rtc" >>
    /\ failedAt = "none"
    /\ exc = "none"
    /\ led = -1
    /\ ledLog = << >>
    /\ faultRuns = 0
    /\ flashI = 0
    /\ requests = << >>
    /\ owdata = << >>
    /\ sensorLog = << >>
    /\ sensor_data = << >>
    /\ response = NoResponse
    /\ ow_data = << >>
    /\ page = 0
    /\ displayLog = << >>
    /\ oled = "unscanned"
    /\ uploads = 0
    /\ sleepDecisions = 0
    /\ sleepMs = -1

DstDays ==
    /\ pc = "dst_days"
    /\ marchDay' = LastSundayMarch(year)
    /\ octDay' = LastSundayOctober(year)
    /\ pc' = "dst_days_done"
    /\ UNCHANGED << envVars, wifiVars, clockVars, year, HHMarch, HHOctober,
                    invoked, failedAt, exc, faultVars, dataVars, oledVars,
                    uploads, sleepVars >>

SpecCal == InitCal /\ [][DstDays]_vars

----------------------------------------------------------------------------
(* what the properties below speak about *)

SixSteps ==
    << "connect_wifi", "synchronize_rtc", "get_weather_data",
       "get_sensor_readings", "update_oled_display", "log_sensor_readings" >>

\* the positions of run() from the except clause on
AfterFailurePcs ==
    { "except", "led_on", "led_off", "sleep_decision",
      "deepsleep_till_next_cycle", "deepsleep", "debughold" }

\* the positions of run() from the sleep decision on
FromSleepDecisionPcs ==
    { "sleep_decision", "deepsleep_till_next_cycle", "deepsleep", "debughold" }

\* the step a position of run() belongs to
StepOfPc(p) ==
    CASE p \in {"connect_wifi", "wifi_loop", "wifi_status"} -> "connect_wifi"
      [] p \in {"synchronize_rtc", "ntp_settime", "tz_correction",
                "dst_window", "dst_correction"} -> "synchronize_rtc"
      [] p \in {"get_weather_data", "ow_today", "ow_url2", "ow_daily"}
            -> "get_weather_data"
      [] p \in {"get_sensor_readings", "bmp180", "bh1750"} -> "get_sensor_readings"
      [] p \in {"update_oled_display", "page_loop"} -> "update_oled_display"
      [] p \in {"log_sensor_readings", "thingspeak_status"} -> "log_sensor_readings"
      [] OTHER -> "none"

PositionOf(step) == CHOOSE k \in 1..6 : SixSteps[k] = step

\* the day of the month of the last Sunday of month m of year y, by the calendar
CalendarLastSunday(y, m) ==
    CHOOSE d \in 1..DaysInMonth(y, m) :
        /\ WeekdayOfDays(DaysSinceEpoch(y, m, d)) = 6
        /\ d + 7 > DaysInMonth(y, m)

\* the local time synchronize_rtc has to commit for the UTC instant utc
ExpectedLocal(utc, dst) ==
    LET t == utc + 1 * 3600
        y == Localtime(t)[1]
        start == Mktime(y, 3, CalendarLastSunday(y, 3), 2, 0, 0)
        end == Mktime(y, 10, CalendarLastSunday(y, 10), 3, 0, 0)
    IN  IF dst /\ start <= t /\ t < end THEN t + 3600 ELSE t

----------------------------------------------------------------------------
\* C1: under the fair scheduling of the single program thread, every cycle
\* that starts ends in deep sleep or in the debug hold with the sleep decision
\* evaluated once; and every failure of a step (control in the except clause)
\* leads to the completed fault indication (show_error run once, the led
\* flashed and off) at the sleep decision, which is then evaluated.
C1_EveryCycleReachesSleepDecision ==
    /\ (pc = "run") ~> (pc \in {"deepsleep", "debughold"} /\ sleepDecisions = 1)
    /\ (pc = "except") ~>
            (pc = "sleep_decision" /\ faultRuns = 1 /\ led = 1 /\ failedAt # "none")
    /\ (pc = "sleep_decision") ~>
            (pc \in {"deepsleep", "debughold"} /\ sleepDecisions = 1)

C1_Witness ==
    /\ pc = "debughold"
    /\ failedAt = "update_oled_display"
    /\ faultRuns = 1
    /\ sleepDecisions = 1

\* C2: once a step has failed, the steps invoked in the cycle are exactly the
\* steps up to the failed one, and control is in the except clause or after it.
C2_FailureAbandonsLaterSteps ==
    failedAt # "none" =>
        /\ pc \in AfterFailurePcs
        /\ Len(invoked) = PositionOf(failedAt)
        /\ \A k \in 1..Len(invoked) : PositionOf(invoked[k]) <= PositionOf(failedAt)
        /\ (PositionOf(failedAt) < 6 => uploads = 0)
        /\ (PositionOf(failedAt) < 5 => displayLog = << >>)
        /\ (PositionOf(failedAt) < 4 => sensorLog = << >>)
        /\ (PositionOf(failedAt) < 3 => requests = << >>)

C2_Witness ==
    /\ failedAt = "get_weather_data"
    /\ pc = "deepsleep"
    /\ invoked = << "connect_wifi", "synchronize_rtc", "get_weather_data" >>

\* C3: the sleep decision goes on to deep sleep exactly when the debug pin is
\* not low at that moment, and to the debug hold exactly when it is low, after
\* a failure as well as without one; deep sleep is called with 900 * 1000 =
\* 900000 ms and from nowhere else; in the debug hold deep sleep is not called
\* and the hold is not left.
C3_SleepIffDebugNotAsserted ==
    [][ /\ (pc = "sleep_decision" /\ pc' # pc) =>
                /\ (pc' = "deepsleep_till_next_cycle") <=> (debugPin # 0)
                /\ (pc' = "debughold") <=> (debugPin = 0)
        /\ (pc = "deepsleep_till_next_cycle" /\ pc' # pc) =>
                /\ pc' = "deepsleep"
                /\ sleepMs' = 900000
                /\ sleepMs' = INTERVAL * 1000
        /\ (sleepMs' # sleepMs) => pc \in {"deepsleep_till_next_cycle", "deepsleep"}
        /\ (pc = "debughold") => (pc' = "debughold" /\ sleepMs' = -1 /\ sleepMs = -1)
      ]_vars

C3_Witness ==
    /\ pc = "deepsleep"
    /\ failedAt # "none"
    /\ sleepMs = 900000
    /\ sleepDecisions = 1

\* C4: the steps invoked in a cycle are always a prefix of the six steps in
\* their order, so none is invoked twice or out of order; the position of
\* run() is inside the last step invoked; and the sleep decision of a cycle
\* without failure comes with all six steps invoked, the upload made.
C4_StepsInOrderOnce ==
    /\ Len(invoked) <= 6
    /\ \A k \in 1..Len(invoked) : invoked[k] = SixSteps[k]
    /\ (StepOfPc(pc) # "none" =>
            (invoked # << >> /\ invoked[Len(invoked)] = StepOfPc(pc)))
    /\ ((pc \in FromSleepDecisionPcs /\ failedAt = "none") =>
            (invoked = SixSteps /\ uploads = 1))
    /\ (sleepDecisions > 0 => pc \in FromSleepDecisionPcs)

C4_Witness ==
    /\ pc = "deepsleep"
    /\ failedAt = "none"
    /\ invoked = SixSteps
    /\ uploads = 1
    /\ sleepDecisions = 1

\* C5: show_error runs at most once in a cycle, not at all while no step has
\* failed; from the sleep decision on it has run exactly once if a step failed,
\* the led was then switched on 3 times, each time followed by off, and is off.
C5_FaultIndicationOncePerFailure ==
    /\ faultRuns <= 1
    /\ (failedAt = "none" => (faultRuns = 0 /\ ledLog = << >>))
    /\ (pc \in FromSleepDecisionPcs =>
            /\ faultRuns = (IF failedAt # "none" THEN 1 ELSE 0)
            /\ (failedAt # "none" =>
                    /\ ledLog = << LED_ON, LED_OFF, LED_ON, LED_OFF, LED_ON, LED_OFF >>
                    /\ Len(SelectSeq(ledLog, LAMBDA v : v = LED_ON)) = 3
                    /\ led = LED_OFF))
    /\ (sleepDecisions > 0 => pc \in FromSleepDecisionPcs)

C5_Witness ==
    /\ pc = "sleep_decision"
    /\ failedAt = "get_sensor_readings"
    /\ faultRuns = 1
    /\ ledLog = << 0, 1, 0, 1, 0, 1 >>

\* C6: connect_wifi started without a connection requests the connection
\* once and never again in the cycle, then waits one second per unsuccessful
\* poll, at most MAX_TRIES = 20 times; it raises only while not connected and,
\* when it had requested the connection, only after 20 waits; it returns only
\* when connected, and does so once a read has found the connection; it always
\* comes to its end, and no later position of the cycle leads back into it.
C6_NetworkJoinBounded ==
    /\ [](/\ tries <= 20
          /\ tries <= MAX_TRIES
          /\ connectRequests <= 1
          /\ Len(SelectSeq(invoked, LAMBDA st : st = "connect_wifi")) <= 1)
    /\ [][ /\ (pc = "connect_wifi" /\ ~connected /\ pc' # pc) =>
                (pc' = "wifi_loop" /\ connectRequests' = 1 /\ tries' = 0)
           /\ (pc # "connect_wifi" /\ pc' # "run") =>
                connectRequests' = connectRequests
           /\ (pc = "wifi_loop" /\ tries' # tries) =>
                (tries' = tries + 1 /\ ~connected' /\ pc' = "wifi_loop")
           /\ (StepOfPc(pc) = "connect_wifi" /\ pc' = "except") =>
                (~connected' /\ (connectRequests = 1 => tries = 20))
           /\ (StepOfPc(pc) = "connect_wifi" /\ pc' = "synchronize_rtc") =>
                connected'
           /\ (StepOfPc(pc) = "connect_wifi" /\ connected) => pc' # "except"
           /\ (StepOfPc(pc) # "connect_wifi" /\ pc # "run") =>
                StepOfPc(pc') # "connect_wifi"
         ]_vars
    /\ (pc = "connect_wifi") ~> (pc \in {"synchronize_rtc", "except"})

C6_Witness ==
    /\ pc = "except"
    /\ failedAt = "connect_wifi"
    /\ connectRequests = 1
    /\ ~connected

\* C7: once a synchronisation has completed, no step of this or a later cycle
\* calls ntptime.settime() or writes the clock (the clock only runs on over
\* deep sleep); and the clock is written only from inside synchronize_rtc.
C7_SynchronizedOnlyOnce ==
    [][ /\ syncDone =>
                /\ ntpFetches' = ntpFetches
                /\ rtcWrites' = rtcWrites
                /\ ntpUtc' = ntpUtc
                /\ (rtc' # rtc => (pc = "deepsleep" /\ rtc' = rtc + 900))
        /\ (rtcWrites' # rtcWrites \/ (rtc' # rtc /\ pc # "deepsleep")) =>
                /\ StepOfPc(pc) = "synchronize_rtc"
                /\ invoked[Len(invoked)] = "synchronize_rtc"
        /\ (ntpFetches' # ntpFetches) => pc = "ntp_settime"
      ]_vars

C7_Witness ==
    /\ cycle = 2
    /\ syncDone
    /\ ntpFetches = 1
    /\ pc = "log_sensor_readings"

\* C8: a call of synchronize_rtc with a clock whose year is not 2000 goes on to
\* the next step without a network time fetch and without a write of the clock.
C8_SynchronizeIsNoOpWhenSet ==
    [][ (pc = "synchronize_rtc" /\ Localtime(rtc)[1] # 2000) =>
            /\ rtc' = rtc
            /\ ntpFetches' = ntpFetches
            /\ rtcWrites' = rtcWrites
            /\ ntpUtc' = ntpUtc
            /\ pc' \in {"synchronize_rtc", "get_weather_data"}
      ]_vars

C8_Witness ==
    /\ cycle = 2
    /\ pc = "get_weather_data"
    /\ Localtime(rtc)[1] = 2021
    /\ ntpFetches = 1
    /\ rtcWrites = 3
    /\ rtc = ntpUtc + 3600 + 3600 + 900

\* C9: when synchronize_rtc returns from a synchronisation, the clock holds
\* UTC + 1 h, and one hour more exactly when DST is enabled and UTC + 1 h lies
\* in [last Sunday of March 02:00, last Sunday of October 03:00) of its year;
\* in 2021: one second before the start no extra hour, on the start and one
\* second after it the extra hour, one second before the end the extra hour,
\* on the end and one second after it none; never with DST disabled.
C9_DaylightSavingWindow ==
    [][ (pc \in {"tz_correction", "dst_correction"} /\ pc' = "get_weather_data") =>
            /\ rtc' = ExpectedLocal(ntpUtc, cfgDST)
            /\ rtc' \in {ntpUtc + 3600, ntpUtc + 7200}
            /\ (~cfgDST => rtc' = ntpUtc + 3600)
            /\ (cfgDST /\ ntpUtc = 670208399 => rtc' = 670211999)
            /\ (cfgDST /\ ntpUtc = 670208400 => rtc' = 670215600)
            /\ (cfgDST /\ ntpUtc = 670208401 => rtc' = 670215601)
            /\ (cfgDST /\ ntpUtc = 688960799 => rtc' = 688967999)
            /\ (cfgDST /\ ntpUtc = 688960800 => rtc' = 688964400)
            /\ (cfgDST /\ ntpUtc = 688960801 => rtc' = 688964401)
      ]_vars

C9_Witness ==
    /\ cycle = 1
    /\ pc = "get_weather_data"
    /\ cfgDST
    /\ ntpUtc = 670208401
    /\ rtc = 670215601
    /\ HHMarch = 670212000

\* C10: for every year 2000..2099 the two formulas give the day of the month
\* of the last Sunday of March and of October of the calendar; 28 and 31 in 2021.
C10_LastSundayFormulas ==
    pc = "dst_days_done" =>
        /\ marchDay = CalendarLastSunday(year, 3)
        /\ octDay = CalendarLastSunday(year, 10)
        /\ (year = 2021 => (marchDay = 28 /\ octDay = 31))

C10_Witness ==
    /\ pc = "dst_days_done"
    /\ year = 2021
    /\ marchDay = 28
    /\ octDay = 31

\* the list get_weather_data has to return
FourDays ==
    << [from |-> "URL1", index |-> 0], [from |-> "URL2", index |-> 1],
       [from |-> "URL2", index |-> 2], [from |-> "URL2", index |-> 3] >>

\* C11: get_weather_data returns only the list of length 4 made of the first
\* endpoint's current conditions and of daily[1], daily[2], daily[3] of the
\* second, in this order; it does so whenever the second response has a
\* success status, a well-formed body and at least 4 daily entries, and with
\* fewer than 4 entries it raises and returns nothing.
C11_ForecastOfFourDays ==
    /\ [](/\ ow_data \in { << >>, FourDays }
          /\ (ow_data # << >> =>
                /\ Len(ow_data) = 4
                /\ ow_data[1].from = "URL1"
                /\ \A k \in 2..4 : ow_data[k] = [from |-> "URL2", index |-> k - 1]))
    /\ [][ /\ (pc = "ow_daily" /\ pc' # pc) =>
                /\ (response.status_code < 400 /\ response.wellFormed
                        /\ response.daily >= 4) =>
                        (pc' = "get_sensor_readings" /\ ow_data' = FourDays)
                /\ (pc' = "get_sensor_readings") =>
                        (ow_data' = FourDays /\ response.daily >= 4)
                /\ (response.daily < 4) => (pc' = "except" /\ ow_data' = << >>)
           /\ (ow_data' # ow_data) => pc \in {"ow_daily", "deepsleep"}
         ]_vars

C11_Witness ==
    /\ pc = "get_sensor_readings"
    /\ requests = << "URL1", "URL2" >>
    /\ ow_data = FourDays

\* C12: a status of 400 or more in the response of either request makes
\* get_weather_data raise at once, nothing returned and no further request
\* sent; the second request is sent only after the first response passed.
C12_NonSuccessStatusFails ==
    /\ [](/\ (failedAt = "get_weather_data" => ow_data = << >>)
          /\ (Len(requests) <= 2)
          /\ (Len(requests) = 2 =>
                (requests = << "URL1", "URL2" >> /\ owdata # << >>
                    /\ owdata[1] = [from |-> "URL1", index |-> 0])))
    /\ [][ /\ (pc \in {"ow_today", "ow_daily"} /\ response.status_code >= 400
                    /\ pc' # pc) =>
                /\ pc' = "except"
                /\ failedAt' = "get_weather_data"
                /\ ow_data' = << >>
                /\ requests' = requests
           /\ (requests' # requests /\ pc # "deepsleep") =>
                /\ pc \in {"get_weather_data", "ow_url2"}
                /\ (pc = "ow_url2" => response.status_code < 400)
         ]_vars

C12_Witness ==
    /\ pc = "except"
    /\ failedAt = "get_weather_data"
    /\ exc = "Webhook OpenWeather URL1 failed"
    /\ requests = << "URL1" >>
    /\ ow_data = << >>

----------------------------------------------------------------------------
(* get_sensor_readings(): the order of the sensors and a missing sensor *)

\* the addresses in the order the scans are made, the wake scan first
ScanOrder == << 92, 92, 119, 35 >>

ScansOf(log) == SelectSeq(log, LAMBDA e : e.op = "scan")

MissingSensor ==
    { "Cannot find AM2320 sensor", "Cannot find BMP180 sensor",
      "Cannot find BH1750 sensor" }

TheRecord ==
    << { "am2320_temp", "am2320_hum", "bmp180_temp", "bmp180_pres",
         "bmp180_alt", "bh1750_lum" } >>

\* the sensors whose tested scan found them
FoundSensors ==
    { a \in {92, 119, 35} :
        \E i \in 2..Len(sensorLog) :
            sensorLog[i] = [op |-> "scan", address |-> a, found |-> TRUE] }

\* the order 0x5C, 0x77, 0x23; a sensor missing from its scan ends the call with
\* nothing probed or read after it and no record; a sensor is read only after
\* the scan that found it
MissingSensorFailsAtOnce ==
    /\ Len(ScansOf(sensorLog)) <= Len(ScanOrder)
    /\ \A k \in 1..Len(ScansOf(sensorLog)) :
            ScansOf(sensorLog)[k].address = ScanOrder[k]
    /\ \A i \in 2..Len(sensorLog) :
            (sensorLog[i].op = "scan" /\ ~sensorLog[i].found) =>
                /\ i = Len(sensorLog)
                /\ failedAt = "get_sensor_readings"
                /\ exc \in MissingSensor
                /\ sensor_data = << >>
    /\ (\E i \in 1..Len(sensorLog) :
            sensorLog[i] = [op |-> "scan", address |-> 119, found |-> FALSE]) =>
            (\A i \in 1..Len(sensorLog) : sensorLog[i].address # 35)
    /\ \A i \in 1..Len(sensorLog) :
            (sensorLog[i].op # "scan") =>
                /\ i > 2
                /\ sensorLog[i - 1] = [op |-> "scan",
                                       address |-> sensorLog[i].address,
                                       found |-> TRUE]
    /\ (failedAt = "get_sensor_readings" => sensor_data = << >>)
    /\ (sensor_data # << >> =>
            (sensor_data = TheRecord /\ Cardinality(sensor_data[1]) = 6))

C18_SecondScanDecides ==
    (sensorLog # << >>) =>
        /\ Len(sensorLog) >= 2
        /\ sensorLog[1].op = "scan" /\ sensorLog[1].address = 92
        /\ sensorLog[2].op = "scan" /\ sensorLog[2].address = 92
        /\ Cardinality({ i \in 1..Len(sensorLog) :
                sensorLog[i].op = "scan" /\ sensorLog[i].address = 92 }) = 2
        /\ (~sensorLog[2].found =>
                /\ Len(sensorLog) = 2
                /\ failedAt = "get_sensor_readings"
                /\ exc = "Cannot find AM2320 sensor"
                /\ pc \notin {"bmp180", "bh1750"})
        /\ (sensorLog[2].found =>
                /\ Len(sensorLog) >= 3
                /\ sensorLog[3].address = 92
                /\ sensorLog[3].op \in {"read", "error"}
                /\ exc # "Cannot find AM2320 sensor")

C18_Witness ==
    /\ Len(sensorLog) >= 3
    /\ ~sensorLog[1].found
    /\ sensorLog[2].found
    /\ sensorLog[3] = Measured(92)

----------------------------------------------------------------------------
(* update_oled_display(): the pages, the dwell and the power-off *)

\* what a page writes to the display, in order
PageOps == << "fill", "text", "body", "show", "sleep" >>

\* the complete run of the display: every page of config.PAGES in order, the
\* power-off last
CompleteDisplay ==
    [ i \in 1..(5 * Len(PAGES) + 1) |->
        IF i = 5 * Len(PAGES) + 1
        THEN << "poweroff", Len(PAGES) >>
        ELSE << PageOps[((i - 1) % 5) + 1], (i - 1) \div 5 >> ]

PoweredOff == \E i \in 1..Len(displayLog) : displayLog[i][1] = "poweroff"

Shown(p) == \E i \in 1..Len(displayLog) : displayLog[i] = << "show", p >>

\* a bitmap of a page could not be loaded
BitmapFailed == failedAt = "update_oled_display" /\ exc = "OSError"

\* C14: the display shows the pages in the configured order, each page
\* cleared, titled, drawn, flushed and then held for the dwell, before the
\* next page starts; the power-off comes exactly once, after the dwell of
\* the last page, and the call returns only then.
C14_PagesInOrderThenPowerOff ==
    /\ Len(displayLog) <= Len(CompleteDisplay)
    /\ \A i \in 1..Len(displayLog) : displayLog[i] = CompleteDisplay[i]
    /\ Cardinality({ i \in 1..Len(displayLog) : displayLog[i][1] = "poweroff" }) <= 1
    /\ (PoweredOff =>
            /\ displayLog = CompleteDisplay
            /\ displayLog[Len(displayLog) - 1] = << "sleep", Len(PAGES) - 1 >>)
    /\ (\E k \in 1..Len(invoked) : invoked[k] = "log_sensor_readings") =>
            displayLog = CompleteDisplay

C14_Witness ==
    /\ pc = "log_sensor_readings"
    /\ Len(displayLog) = 26
    /\ displayLog[5] = << "sleep", 0 >>
    /\ displayLog[6] = << "fill", 1 >>
    /\ displayLog[26] = << "poweroff", 5 >>

\* C17: a bitmap that cannot be loaded on page k ends the cycle at the except
\* clause: page k is not flushed, no later page is started, the upload is not
\* invoked, and the fault indication runs and the sleep decision is taken.
C17_BitmapFailureAbortsCycle ==
    /\ [](BitmapFailed =>
            /\ pc \in AfterFailurePcs
            /\ displayLog # << >>
            /\ displayLog[Len(displayLog)] = << "text", page >>
            /\ page \in 1..(Len(PAGES) - 1)
            /\ ~Shown(page)
            /\ \A i \in 1..Len(displayLog) : displayLog[i][2] <= page
            /\ \A p \in 0..(page - 1) : Shown(p)
            /\ uploads = 0
            /\ \A k \in 1..Len(invoked) : invoked[k] # "log_sensor_readings"
            /\ (pc \in FromSleepDecisionPcs => (faultRuns = 1 /\ Len(ledLog) = 6)))
    /\ (pc = "except" /\ BitmapFailed) ~>
            (pc = "sleep_decision" /\ BitmapFailed /\ faultRuns = 1 /\ uploads = 0)
    /\ (pc = "sleep_decision" /\ BitmapFailed) ~>
            (pc \in {"deepsleep", "debughold"} /\ BitmapFailed
                /\ sleepDecisions = 1 /\ uploads = 0)

C17_Witness ==
    /\ pc = "debughold"
    /\ BitmapFailed
    /\ page = 3
    /\ displayLog[Len(displayLog)] = << "text", 3 >>
    /\ Shown(2)
    /\ faultRuns = 1

\* C20: the display is powered off only after every page was flushed; a
\* failure of the step once the display is in use leads to the sleep
\* decision, and to deep sleep when the debug pin is not asserted, with the
\* display not powered off in the cycle.
C20_PowerOffOnlyAfterAllPages ==
    /\ [](/\ (PoweredOff => \A p \in 0..(Len(PAGES) - 1) : Shown(p))
          /\ (failedAt = "update_oled_display" => ~PoweredOff)
          /\ ((failedAt = "update_oled_display" /\ displayLog # << >>) =>
                    \E p \in 0..(Len(PAGES) - 1) : ~Shown(p)))
    /\ [][ (/\ pc = "sleep_decision"
            /\ failedAt = "update_oled_display"
            /\ displayLog # << >>
            /\ debugPin = 1
            /\ pc' # pc) =>
                (pc' = "deepsleep_till_next_cycle" /\ ~PoweredOff') ]_vars
    /\ (pc = "except" /\ failedAt = "update_oled_display" /\ displayLog # << >>) ~>
            (pc = "sleep_decision" /\ ~PoweredOff)
    /\ (pc = "deepsleep_till_next_cycle" /\ failedAt = "update_oled_display"
            /\ displayLog # << >>) ~>
            (pc = "deepsleep" /\ sleepMs = 900000 /\ ~PoweredOff)

C20_Witness ==
    /\ pc = "deepsleep"
    /\ failedAt = "update_oled_display"
    /\ Len(displayLog) = 7
    /\ ~PoweredOff
    /\ sleepMs = 900000

----------------------------------------------------------------------------
(* the upload and the restart after deep sleep *)

\* C16: log_sensor_readings sends one GET and never a second one; a status
\* of 400 or more makes it raise into the except clause, and it returns to
\* run() only from the status test with a status below 400.
C16_UploadOnceAndFailOnStatus ==
    /\ [](/\ uploads <= 1
          /\ (failedAt = "log_sensor_readings" => uploads = 1)
          /\ (uploads = 1 => invoked[Len(invoked)] = "log_sensor_readings"))
    /\ [][ /\ (pc = "thingspeak_status" /\ pc' # pc) =>
                /\ uploads' = uploads
                /\ IF response.status_code >= 400
                   THEN /\ pc' = "except"
                        /\ failedAt' = "log_sensor_readings"
                        /\ exc' = "Webhook ThingSpeak failed"
                   ELSE /\ pc' = "sleep_decision"
                        /\ failedAt' = "none"
           /\ (pc = "log_sensor_readings" /\ pc' # pc) =>
                /\ uploads = 0 /\ uploads' = 1
                /\ pc' \in {"thingspeak_status", "except"}
           /\ (uploads' # uploads) => pc \in {"log_sensor_readings", "deepsleep"}
           /\ (pc' = "sleep_decision" /\ pc # pc' /\ failedAt' = "none") =>
                (pc = "thingspeak_status" /\ response.status_code < 400)
         ]_vars

C16_Witness ==
    /\ pc = "except"
    /\ failedAt = "log_sensor_readings"
    /\ exc = "Webhook ThingSpeak failed"
    /\ uploads = 1

\* C15: the wake from deep sleep starts the program anew whatever the cycle
\* before it did: the clock has moved on by the interval and every other
\* variable of the program has its power-on value, so no forecast, reading or
\* failure status is left; the cycle then begins with connect_wifi.
C15_WakeRestartsFromFirstStep ==
    /\ [][ (pc = "deepsleep" /\ pc' # pc) =>
                /\ pc' = "run"
                /\ cycle' = cycle + 1
                /\ rtc' = rtc + INTERVAL
                /\ failedAt' = "none" /\ exc' = "none"
                /\ invoked' = << >>
                /\ ow_data' = << >> /\ owdata' = << >> /\ requests' = << >>
                /\ sensor_data' = << >> /\ sensorLog' = << >>
                /\ response' = NoResponse
                /\ displayLog' = << >> /\ page' = 0 /\ oled' = "unscanned"
                /\ uploads' = 0
                /\ tries' = 0 /\ connectRequests' = 0
                /\ faultRuns' = 0 /\ ledLog' = << >> /\ flashI' = 0 /\ led' = -1
                /\ year' = 0 /\ marchDay' = 0 /\ octDay' = 0
                /\ HHMarch' = 0 /\ HHOctober' = 0
                /\ sleepDecisions' = 0 /\ sleepMs' = -1 ]_vars
    /\ [][ (pc = "run" /\ pc' # pc) =>
                (pc' = "connect_wifi" /\ invoked' = << "connect_wifi" >>
                    /\ failedAt' = "none" /\ ow_data' = << >>
                    /\ sensor_data' = << >>) ]_vars
    /\ [](pc = "run" =>
            /\ failedAt = "none" /\ invoked = << >> /\ ow_data = << >>
            /\ sensor_data = << >> /\ uploads = 0
            /\ (rtcWrites = 0 => rtc = (cycle - 1) * INTERVAL))

C15_Witness ==
    /\ cycle = 2
    /\ pc = "synchronize_rtc"
    /\ invoked = << "connect_wifi", "synchronize_rtc" >>
    /\ failedAt = "none"
    /\ ntpFetches = 1
    /\ rtcWrites = 0
    /\ rtc = INTERVAL

----------------------------------------------------------------------------
(* synchronize_rtc(): the time fetch fails *)

\* C19: a failing time fetch ends the cycle in the except clause with the
\* clock not written (it still reads the year 2000) and no later step run;
\* the cycle after it, when it comes to synchronize_rtc, fetches the time
\* again.
C19_TimeFetchFailureRetried ==
    /\ [](failedAt = "synchronize_rtc" =>
            /\ pc \in AfterFailurePcs
            /\ exc = "OSError"
            /\ Localtime(rtc)[1] = 2000
            /\ rtcWrites = 0
            /\ requests = << >> /\ sensorLog = << >>
            /\ displayLog = << >> /\ uploads = 0
            /\ invoked = << "connect_wifi", "synchronize_rtc" >>)
    /\ [][ /\ (pc = "ntp_settime" /\ failedAt' = "synchronize_rtc") =>
                (rtc' = rtc /\ rtcWrites' = rtcWrites /\ pc' = "except")
           /\ (/\ pc = "synchronize_rtc"
               /\ cycle > 1
               /\ ntpFetches = cycle - 1
               /\ rtcWrites = 0
               /\ pc' # pc) => pc' = "ntp_settime"
         ]_vars

----------------------------------------------------------------------------
(* update_oled_display(): the display is missing *)

\* C21: update_oled_display scans for the display before it draws anything
\* and raises with nothing drawn when address 60 is not in the scan; a cycle
\* that fails in update_oled_display, for the missing display or while a page
\* is rendered, holds the sensor record of the cycle and never uploads it.
C21_NoUploadWhenDisplayFails ==
    /\ [](/\ (oled = "unscanned" => displayLog = << >>)
          /\ (displayLog # << >> => oled = "found")
          /\ (oled = "absent" =>
                /\ failedAt = "update_oled_display"
                /\ exc = "Cannot find OLED display"
                /\ displayLog = << >>
                /\ pc \in AfterFailurePcs)
          /\ (oled = "found" => exc # "Cannot find OLED display")
          /\ (failedAt = "update_oled_display" =>
                /\ sensor_data = TheRecord
                /\ uploads = 0
                /\ \A k \in 1..Len(invoked) : invoked[k] # "log_sensor_readings"
                /\ pc \notin {"log_sensor_readings", "thingspeak_status"}))
    /\ [][ /\ (pc = "update_oled_display" /\ pc' # pc) =>
                /\ oled = "unscanned" /\ oled' # "unscanned"
                /\ displayLog' = << >>
                /\ pc' = (IF oled' = "absent" THEN "except" ELSE "page_loop")
           /\ (uploads' > uploads) =>
                (failedAt = "none" /\ displayLog = CompleteDisplay)
           /\ (failedAt = "update_oled_display" /\ pc # "deepsleep") =>
                (failedAt' = failedAt /\ uploads' = 0)
         ]_vars

C21_Witness ==
    /\ pc = "deepsleep"
    /\ oled = "absent"
    /\ failedAt = "update_oled_display"
    /\ sensor_data = TheRecord
    /\ displayLog = << >>
    /\ uploads = 0

----------------------------------------------------------------------------
(* synchronize_rtc(): the DST decision stays as taken *)

\* the UTC time now: the instant the server gave, and the sleeps since
UtcNow == ntpUtc + (cycle - syncCycle) * INTERVAL

\* the DST window of 2021 in local standard time (UTC + 1 h):
\* 2021-03-28 02:00:00 to 2021-10-31 03:00:00
Start2021 == Mktime(2021, 3, CalendarLastSunday(2021, 3), 2, 0, 0)

End2021 == Mktime(2021, 10, CalendarLastSunday(2021, 10), 3, 0, 0)

SynchronizePcs == { "ntp_settime", "tz_correction", "dst_window", "dst_correction" }

\* C22: once synchronize_rtc has set the clock, no later cycle of the session
\* takes the DST decision again and the clock only runs on, so its offset
\* from UTC stays the one chosen at the synchronisation: a clock set before
\* the March boundary shows UTC + 1 h after the boundary has passed, and a
\* clock set inside the window shows UTC + 2 h after the October boundary.
C22_OffsetFixedAtSynchronisation ==
    /\ [](syncDone =>
            /\ rtc - UtcNow = ExpectedLocal(ntpUtc, cfgDST) - ntpUtc
            /\ rtc - UtcNow \in {3600, 7200}
            /\ (/\ cfgDST
                /\ ntpUtc + 3600 < Start2021
                /\ UtcNow + 3600 >= Start2021
                /\ UtcNow + 3600 < End2021) => rtc = UtcNow + 3600
            /\ (/\ cfgDST
                /\ ntpUtc + 3600 >= Start2021
                /\ ntpUtc + 3600 < End2021
                /\ UtcNow + 3600 >= End2021) => rtc = UtcNow + 7200)
    /\ [][ syncDone =>
            /\ pc' \notin SynchronizePcs
            /\ rtcWrites' = rtcWrites
            /\ ntpUtc' = ntpUtc
            /\ (rtc' # rtc => (pc = "deepsleep" /\ rtc' = rtc + INTERVAL
                                /\ cycle' = cycle + 1))
         ]_vars

C22_Witness ==
    /\ cycle = 2
    /\ pc = "get_weather_data"
    /\ syncDone
    /\ cfgDST
    /\ syncCycle = 1
    /\ ntpUtc = 688960799
    /\ rtc = 688960799 + 900 + 7200
    /\ UtcNow + 3600 >= End2021

====
